---- MODULE Spec2Model ----
(***************************************************************************)
(* Model of the conventional-commit crate: the typed components            *)
(* (src/src/component.rs), the commit assembler and its Display            *)
(* (src/src/commit.rs) and the plain-string accessors                      *)
(* (src/src/commit/simple.rs).  The grammar recognizer (crate::parser) is  *)
(* not among the sources; it is modelled from section 4.2 of the           *)
(* specification.                                                          *)
(*                                                                         *)
(* Text is a sequence of one-character strings.                            *)
(***************************************************************************)
EXTENDS Integers, Sequences, FiniteSets

VARIABLES
  pc,         \* where the run over a commit message stands
  msg,        \* the message handed to Commit::new
  raw,        \* the recognizer's answer for msg
  result,     \* what Commit::new returned
  out,        \* the formatter's buffer while Display runs
  idx,        \* the trailer Display writes next
  reparsed,   \* Commit::new on the text Display produced
  cpc,        \* where the run over the components stands
  ta, tb,     \* two identifier texts (Type, Scope or FooterToken)
  eqRes,      \* whether the two wrappers compare equal
  hashA, hashB, \* what each wrapper hands to a hasher
  terminated, \* whether the unicase of the build ends a hash with 0xFF
  shown,      \* the text of the first wrapper through Deref and Display
  sepVariant, \* a FooterSeparator to take the literal of
  sepText,    \* a separator literal
  sepRes,     \* from_str on sepText
  sepTry,     \* try_from on sepText
  sepBack     \* as_str on the separator from_str returned

vars == <<pc, msg, raw, result, out, idx, reparsed,
          cpc, ta, tb, eqRes, hashA, hashB, terminated, shown,
          sepVariant, sepText, sepRes, sepTry, sepBack>>

commitVars == <<pc, msg, raw, result, out, idx, reparsed>>

componentVars == <<cpc, ta, tb, eqRes, hashA, hashB, terminated, shown,
                   sepVariant, sepText, sepRes, sepTry, sepBack>>

(***************************************************************************)
(* Bounds of the model.                                                    *)
(***************************************************************************)
\* longest tail (lines after the header's blank line) of a generated message
MaxLines == 3

\* longest identifier text compared in the component specification
MaxIdLen == 2

\* longest separator literal tried in the component specification
MaxSepLen == 3

(***************************************************************************)
(* Characters and text helpers.                                            *)
(***************************************************************************)
\* the printable ASCII characters in code order, " " (32) to "~" (126); the
\* grave accent (96), which a string literal cannot hold, is spelled out
Printable ==
  <<" ", "!", "\"", "#", "$", "%", "&", "'", "(", ")", "*", "+", ",", "-", ".", "/",
    "0", "1", "2", "3", "4", "5", "6", "7", "8", "9", ":", ";", "<", "=", ">", "?",
    "@", "A", "B", "C", "D", "E", "F", "G", "H", "I", "J", "K", "L", "M", "N", "O",
    "P", "Q", "R", "S", "T", "U", "V", "W", "X", "Y", "Z", "[", "\\", "]", "^", "_",
    "GRAVE", "a", "b", "c", "d", "e", "f", "g", "h", "i", "j", "k", "l", "m", "n", "o",
    "p", "q", "r", "s", "t", "u", "v", "w", "x", "y", "z", "{", "|", "}", "~">>

Characters == {Printable[i] : i \in 1..Len(Printable)} \cup {"\n", "\t", "\r"}

ByteOf ==
  [c \in Characters |->
     IF c = "\n" THEN 10
     ELSE IF c = "\t" THEN 9
     ELSE IF c = "\r" THEN 13
     ELSE 31 + (CHOOSE i \in 1..Len(Printable) : Printable[i] = c)]

\* the byte of an ASCII character
Ord(c) == ByteOf[c]

\* u8::to_ascii_lowercase
ToAsciiLowercase(b) == IF b >= 65 /\ b <= 90 THEN b + 32 ELSE b

Bytes(s) == [i \in 1..Len(s) |-> Ord(s[i])]

Drop(s, n) == SubSeq(s, n + 1, Len(s))

StartsWith(s, p) == Len(s) >= Len(p) /\ SubSeq(s, 1, Len(p)) = p

\* the number of leading TRUEs of a sequence of flags
PrefixLen(flags) ==
  LET bad == {i \in 1..Len(flags) : ~flags[i]}
  IN  IF bad = {} THEN Len(flags)
      ELSE (CHOOSE i \in bad : \A j \in bad : i <= j) - 1

\* all sequences over S of length at most n
RECURSIVE SeqsUpTo(_, _)
SeqsUpTo(S, n) ==
  IF n = 0 THEN {<<>>}
  ELSE LET shorter == SeqsUpTo(S, n - 1)
       IN  shorter \cup {Append(s, x) : s \in {t \in shorter : Len(t) = n - 1}, x \in S}

None == [some |-> FALSE, val |-> <<>>]

Some(v) == [some |-> TRUE, val |-> v]

(***************************************************************************)
(* component.rs: FooterSeparator.                                          *)
(***************************************************************************)
ColonSpace == "ColonSpace"

SpacePound == "SpacePound"

\* the hidden third variant, FooterSeparator::__NonExhaustive
NonExhaustive == "__NonExhaustive"

FooterSeparator == {ColonSpace, SpacePound, NonExhaustive}

\* the panic of unreachable!(), in the place of the text a call would return
Unreachable == <<"panic: unreachable!()">>

InvalidFormat == "InvalidFormat"

Ok(v) == [ok |-> TRUE, val |-> v, err |-> "none"]

Err(kind) == [ok |-> FALSE, val |-> "none", err |-> kind]

\* FooterSeparator::as_str, with a swapped pair of arms
AsStrSwapped(sep) ==
  IF sep = ColonSpace THEN <<" ", "#">>
  ELSE IF sep = SpacePound THEN <<":", " ">>
  ELSE Unreachable

\* FooterSeparator::as_str
AsStr(sep) ==
  IF sep = ColonSpace THEN <<":", " ">>
  ELSE IF sep = SpacePound THEN <<" ", "#">>
  ELSE Unreachable

\* FromStr for FooterSeparator that also accepts a bare ":" and a bare "#"
FromStrLenient(sep) ==
  IF sep \in {<<":", " ">>, <<":">>} THEN Ok(ColonSpace)
  ELSE IF sep \in {<<" ", "#">>, <<"#">>} THEN Ok(SpacePound)
  ELSE Err(InvalidFormat)

\* FromStr for FooterSeparator
FromStr(sep) ==
  IF sep = <<":", " ">> THEN Ok(ColonSpace)
  ELSE IF sep = <<" ", "#">> THEN Ok(SpacePound)
  ELSE Err(InvalidFormat)

\* TryFrom<&str> for FooterSeparator
TryFrom(value) == FromStr(value)

(***************************************************************************)
(* component.rs: the text wrappers.                                        *)
(***************************************************************************)
\* unicase::UniCase::new: keeps the original text
UniCaseNew(s) == [inner |-> s]

\* UniCase::into_inner
IntoInner(u) == u.inner

\* UniCase's PartialEq on ASCII text: eq_ignore_ascii_case
UniCaseEq(u, v) ==
  /\ Len(u.inner) = Len(v.inner)
  /\ \A i \in 1..Len(u.inner) :
       ToAsciiLowercase(Ord(u.inner[i])) = ToAsciiLowercase(Ord(v.inner[i]))

\* UniCase's Hash on ASCII text: the bytes handed to the hasher, the folded
\* bytes of the text; unicase from 2.7 on ends them with 0xFF, older ones do
\* not, and the sources pin no version
UniCaseHash(u, term) ==
  [i \in 1..Len(u.inner) |-> ToAsciiLowercase(Ord(u.inner[i]))]
  \o (IF term THEN <<255>> ELSE <<>>)

\* components![Description, Body, FooterValue]: From<&str>
ComponentFrom(s) == [value |-> s]

\* components!: Deref
ComponentDeref(c) == c.value

\* unicase_components![Type, Scope, FooterToken]: From<&str>
UnicaseComponentFrom(s) == [value |-> UniCaseNew(s)]

\* unicase_components!: Deref
UnicaseComponentDeref(c) == IntoInner(c.value)

\* unicase_components!: Display (UniCase's Display writes the original text)
UnicaseComponentDisplay(c) == IntoInner(c.value)

\* unicase_components!: derived PartialEq comparing the raw text
UnicaseComponentEqExact(a, b) == IntoInner(a.value) = IntoInner(b.value)

\* unicase_components!: derived PartialEq
UnicaseComponentEq(a, b) == UniCaseEq(a.value, b.value)

\* unicase_components!: derived Hash
UnicaseComponentHash(c, term) == UniCaseHash(c.value, term)

\* Footer::new
FooterNew(token, sep, value) == [token |-> token, sep |-> sep, value |-> value]

\* SimpleFooter::token, separator, value
SimpleFooterToken(f) == UnicaseComponentDeref(f.token)

SimpleFooterSeparator(f) == AsStr(f.sep)

SimpleFooterValue(f) == ComponentDeref(f.value)

(***************************************************************************)
(* The grammar recognizer (crate::parser::parse), after section 4.2 of the *)
(* specification.  Choices the specification leaves open are marked.       *)
(***************************************************************************)
IsWhitespace(c) == c \in {" ", "\t", "\n", "\r"}

\* type: characters other than "(", ")", "!", ":" and whitespace
IsTypeChar(c) == ~IsWhitespace(c) /\ c \notin {"(", ")", "!", ":"}

\* scope: anything up to the next ")"
IsScopeChar(c) == c # ")"

\* trailer word: no whitespace; ends where a separator can start
IsTokenChar(c) == ~IsWhitespace(c) /\ c # ":"

BREAKING_CHANGE ==
  <<"B", "R", "E", "A", "K", "I", "N", "G", " ", "C", "H", "A", "N", "G", "E">>

EqIgnoreAsciiCase(s, t) ==
  /\ Len(s) = Len(t)
  /\ \A i \in 1..Len(s) : ToAsciiLowercase(Ord(s[i])) = ToAsciiLowercase(Ord(t[i]))

\* the lines of a text, split at "\n"
RECURSIVE SplitFrom(_, _, _)
SplitFrom(s, i, cur) ==
  IF i > Len(s) THEN <<cur>>
  ELSE IF s[i] = "\n" THEN <<cur>> \o SplitFrom(s, i + 1, <<>>)
  ELSE SplitFrom(s, i + 1, Append(cur, s[i]))

SplitLines(s) == SplitFrom(s, 1, <<>>)

RECURSIVE JoinLines(_)
JoinLines(ls) ==
  IF ls = <<>> THEN <<>>
  ELSE IF Len(ls) = 1 THEN ls[1]
  ELSE ls[1] \o <<"\n">> \o JoinLines(Tail(ls))

\* the text without its trailing whitespace (scenario 2: neither the body nor
\* a footer value keeps the line break that ends it)
RECURSIVE TrimEnd(_)
TrimEnd(s) ==
  IF s # <<>> /\ IsWhitespace(s[Len(s)]) THEN TrimEnd(SubSeq(s, 1, Len(s) - 1)) ELSE s

IsBlank(line) == \A i \in 1..Len(line) : IsWhitespace(line[i])

\* the length of the footer token a line starts with, 0 when it starts with none:
\* the phrase BREAKING CHANGE (matched without regard to case) or a trailer word
TokenLen(line) ==
  IF Len(line) >= Len(BREAKING_CHANGE)
     /\ EqIgnoreAsciiCase(SubSeq(line, 1, Len(BREAKING_CHANGE)), BREAKING_CHANGE)
  THEN Len(BREAKING_CHANGE)
  ELSE PrefixLen([j \in 1..Len(line) |-> IsTokenChar(line[j])])

\* the separator a text starts with
SepAt(s) ==
  IF StartsWith(s, <<":", " ">>) THEN Some(ColonSpace)
  ELSE IF StartsWith(s, <<" ", "#">>) THEN Some(SpacePound)
  ELSE None

\* a line that matches the pattern: token separator
IsFooterLine(line) ==
  TokenLen(line) > 0 /\ SepAt(Drop(line, TokenLen(line))).some

IsContinuationLine(line) == ~IsFooterLine(line)

\* the footer value that stops at the end of its first line
FooterValueOneLine(ls) == TrimEnd(Drop(ls[1], TokenLen(ls[1]) + 2))

\* the value of the footer that starts at ls[1]: the rest of that line and every
\* following line up to the next line matching the pattern, or the end of input
FooterValue(ls) ==
  LET n == PrefixLen([j \in 1..(Len(ls) - 1) |-> IsContinuationLine(ls[j + 1])])
  IN  TrimEnd(JoinLines(<<Drop(ls[1], TokenLen(ls[1]) + 2)>> \o SubSeq(ls, 2, n + 1)))

\* the footers of a block of lines whose first line matches the pattern
RECURSIVE ParseFooters(_)
ParseFooters(ls) ==
  IF ls = <<>> THEN <<>>
  ELSE LET n == PrefixLen([j \in 1..(Len(ls) - 1) |-> IsContinuationLine(ls[j + 1])])
           tl == TokenLen(ls[1])
       IN  <<[token |-> SubSeq(ls[1], 1, tl),
              sep |-> SepAt(Drop(ls[1], tl)).val,
              value |-> FooterValue(ls)]>>
           \o ParseFooters(Drop(ls, n + 1))

ParseFailure ==
  [ok |-> FALSE, ty |-> <<>>, scope |-> None, bang |-> FALSE,
   description |-> <<>>, body |-> None, footers |-> <<>>]

\* header line: type ['(' scope ')'] ['!'] ':' ' ' description
\* (open in the specification: an empty scope is taken as present but empty)
ParseHeader(h) ==
  LET tlen == PrefixLen([j \in 1..Len(h) |-> IsTypeChar(h[j])])
      r1 == Drop(h, tlen)
      hasScope == r1 # <<>> /\ r1[1] = "("
      inner == Drop(r1, 1)
      slen == PrefixLen([j \in 1..Len(inner) |-> IsScopeChar(inner[j])])
      r2 == IF hasScope THEN Drop(inner, slen + 1) ELSE r1
      bang == r2 # <<>> /\ r2[1] = "!"
      r3 == IF bang THEN Drop(r2, 1) ELSE r2
      desc == Drop(r3, 2)
  IN  IF \/ tlen = 0
         \/ (hasScope /\ slen = Len(inner))
         \/ ~StartsWith(r3, <<":", " ">>)
         \/ desc = <<>>
         \/ IsWhitespace(desc[1])
      THEN ParseFailure
      ELSE [ok |-> TRUE,
            ty |-> SubSeq(h, 1, tlen),
            scope |-> IF hasScope THEN Some(SubSeq(inner, 1, slen)) ELSE None,
            bang |-> bang,
            description |-> desc,
            body |-> None,
            footers |-> <<>>]

\* body and footers: the lines after the header's blank line
ParseTail(hdr, content) ==
  LET lead == PrefixLen([j \in 1..Len(content) |-> IsBlank(content[j])])
      ls == Drop(content, lead)
      blen == PrefixLen([j \in 1..Len(ls) |-> IsContinuationLine(ls[j])])
      body == TrimEnd(JoinLines(SubSeq(ls, 1, blen)))
  IN  [hdr EXCEPT !.body = IF body = <<>> THEN None ELSE Some(body),
                  !.footers = ParseFooters(Drop(ls, blen))]

\* parse: the six fields of a message, or a failure
\* (open in the specification: text right after the header line, with no blank
\* line between, is rejected)
Parse(s) ==
  LET lines == SplitLines(s)
      hdr == ParseHeader(lines[1])
      rest == Tail(lines)
  IN  IF ~hdr.ok THEN ParseFailure
      ELSE IF \A i \in 1..Len(rest) : IsBlank(rest[i]) THEN hdr
      ELSE IF ~IsBlank(rest[1]) THEN ParseFailure
      ELSE ParseTail(hdr, Tail(rest))

(***************************************************************************)
(* commit.rs: Commit::new; commit/simple.rs: the Simple accessors.         *)
(***************************************************************************)
NoCommit ==
  [ty |-> UnicaseComponentFrom(<<>>), scope |-> None,
   description |-> ComponentFrom(<<>>), body |-> None, breaking |-> FALSE,
   trailers |-> <<>>]

\* Option::map(Into::into) for the scope that puts an empty scope for none
ScopeFromDefault(o) ==
  IF o.some THEN Some(UnicaseComponentFrom(o.val)) ELSE Some(UnicaseComponentFrom(<<>>))

\* scope.map(Into::into)
ScopeFrom(o) == IF o.some THEN Some(UnicaseComponentFrom(o.val)) ELSE None

\* body.map(Into::into)
BodyFrom(o) == IF o.some THEN Some(ComponentFrom(o.val)) ELSE None

\* the footer rule comparing tokens the way FooterToken compares
BreakingIgnoreCase(bang, footers) ==
  bang \/ \E i \in 1..Len(footers) : EqIgnoreAsciiCase(footers[i].token, BREAKING_CHANGE)

\* the footer rule asking for exactly one such footer
BreakingExactlyOne(bang, footers) ==
  bang \/ Cardinality({i \in 1..Len(footers) : footers[i].token = BREAKING_CHANGE}) = 1

\* breaking.is_some() || trailers.iter().any(|(k, _, _)| k == &"BREAKING CHANGE")
Breaking(bang, footers) ==
  bang \/ \E i \in 1..Len(footers) : footers[i].token = BREAKING_CHANGE

\* Into<Trailer> for a recognized (token, separator, value)
TrailerFrom(f) ==
  FooterNew(UnicaseComponentFrom(f.token), f.sep, ComponentFrom(f.value))

\* the conversion of the footers that keeps one footer per token
RECURSIVE TrailersFromDedup(_)
TrailersFromDedup(footers) ==
  IF footers = <<>> THEN <<>>
  ELSE LET n == Len(footers)
           init == TrailersFromDedup(SubSeq(footers, 1, n - 1))
       IN  IF \E i \in 1..(n - 1) : footers[i].token = footers[n].token
           THEN init
           ELSE Append(init, TrailerFrom(footers[n]))

\* trailers.into_iter().map(Into::into).collect()
TrailersFrom(footers) == [i \in 1..Len(footers) |-> TrailerFrom(footers[i])]

\* Commit::new on the recognizer's answer
CommitNew(r) ==
  IF ~r.ok THEN [ok |-> FALSE, val |-> NoCommit]
  ELSE [ok |-> TRUE,
        val |-> [ty |-> UnicaseComponentFrom(r.ty),
                 scope |-> ScopeFrom(r.scope),
                 description |-> ComponentFrom(r.description),
                 body |-> BodyFrom(r.body),
                 breaking |-> Breaking(r.bang, r.footers),
                 trailers |-> TrailersFrom(r.footers)]]

\* Simple for Commit
SimpleType(c) == UnicaseComponentDeref(c.ty)

SimpleScope(c) == IF c.scope.some THEN Some(UnicaseComponentDeref(c.scope.val)) ELSE None

SimpleDescription(c) == ComponentDeref(c.description)

SimpleBody(c) == IF c.body.some THEN Some(ComponentDeref(c.body.val)) ELSE None

SimpleBreaking(c) == c.breaking

\* Simple::trailers: one view per stored trailer, in stored order
SimpleTrailers(c) ==
  [i \in 1..Len(c.trailers) |->
     [token |-> SimpleFooterToken(c.trailers[i]),
      separator |-> SimpleFooterSeparator(c.trailers[i]),
      value |-> SimpleFooterValue(c.trailers[i])]]

(***************************************************************************)
(* commit.rs: Display for Commit, one write at a time.                     *)
(***************************************************************************)
\* f.write_str(self.type_())
WriteType(c, buf) == buf \o SimpleType(c)

\* the scope written with the marker of a breaking commit after it
WriteScopeBang(c, buf) ==
  (IF SimpleScope(c).some THEN buf \o <<"(">> \o SimpleScope(c).val \o <<")">> ELSE buf)
  \o (IF SimpleBreaking(c) THEN <<"!">> ELSE <<>>)

\* if let Some(scope) = &self.scope() { write "({})" }
WriteScope(c, buf) ==
  IF SimpleScope(c).some THEN buf \o <<"(">> \o SimpleScope(c).val \o <<")">> ELSE buf

\* write ": {}" with the description
WriteDescription(c, buf) == buf \o <<":", " ">> \o SimpleDescription(c)

\* if let Some(body) = &self.body() { write "\n\n{}" }
WriteBody(c, buf) ==
  IF SimpleBody(c).some THEN buf \o <<"\n", "\n">> \o SimpleBody(c).val ELSE buf

\* write "\n\n{}{}{}" with t.key(), t.separator(), t.value(): the three
\* arguments are taken before anything is written, so a separator whose
\* as_str panics ends the call with that panic and nothing of the turn written
WriteTrailer(t, buf) ==
  IF t.separator = Unreachable THEN Unreachable
  ELSE buf \o <<"\n", "\n">> \o t.token \o t.separator \o t.value

(***************************************************************************)
(* The inputs.                                                             *)
(***************************************************************************)
TypeTexts == {<<>>, <<"f", "i", "x">>, <<"F", "i", "x">>}

ScopeTexts == {<<>>, <<"(", "p", ")">>, <<"(", "P", ")">>, <<"(", ")">>, <<"(", "p">>}

BangTexts == {<<>>, <<"!">>}

SepTexts == {<<":", " ">>, <<":">>, <<":", " ", " ">>}

DescTexts == {<<>>, <<"d">>, <<"d", "!">>}

Headers ==
  {t \o sc \o b \o sp \o d :
     t \in TypeTexts, sc \in ScopeTexts, b \in BangTexts, sp \in SepTexts, d \in DescTexts}

ShortTails == {<<>>, <<"\n">>, <<"\n", "x">>, <<"\n", "\n", "x">>}

\* the lines a generated tail is made of
LinePool ==
  { <<>>,
    <<"t", "x", "t">>,
    <<"R", "e", "f", "s", " ", "#", "1">>,
    <<"B", "y", ":", " ", "Z">>,
    BREAKING_CHANGE \o <<":", " ", "x">>,
    <<"b", "r", "e", "a", "k", "i", "n", "g", " ", "c", "h", "a", "n", "g", "e", ":", " ", "x">>,
    <<"B", "r", "e", "a", "k", "i", "n", "g", "-", "C", "h", "a", "n", "g", "e", ":", " ", "x">> }

TailHeaders ==
  { <<"f", "i", "x", ":", " ", "d">>,
    <<"F", "i", "x", "(", "p", ")", ":", " ", "d">>,
    <<"F", "i", "x", "(", "p", ")", "!", ":", " ", "d">> }

Tails == {JoinLines(ls) : ls \in SeqsUpTo(LinePool, MaxLines) \ {<<>>}}

Messages ==
  {h \o t : h \in Headers, t \in ShortTails}
  \cup {h \o <<"\n", "\n">> \o t : h \in TailHeaders, t \in Tails}

IdChars == {"a", "A", "b", "-"}

IdTexts == SeqsUpTo(IdChars, MaxIdLen)

SepChars == {":", " ", "#"}

SepLiterals == SeqsUpTo(SepChars, MaxSepLen)

NoResult == [ok |-> FALSE, val |-> NoCommit]

NoSep == [ok |-> FALSE, val |-> "none", err |-> "none"]

(***************************************************************************)
(* The state machine.                                                      *)
(***************************************************************************)
CommitIdle ==
  /\ pc = "idle" /\ msg = <<>> /\ raw = ParseFailure /\ result = NoResult
  /\ out = <<>> /\ idx = 1 /\ reparsed = NoResult

ComponentIdle ==
  /\ cpc = "idle" /\ ta = <<>> /\ tb = <<>> /\ eqRes = FALSE
  /\ hashA = <<>> /\ hashB = <<>> /\ terminated = FALSE /\ shown = <<>>
  /\ sepVariant = "none" /\ sepText = <<>>
  /\ sepRes = NoSep /\ sepTry = NoSep /\ sepBack = <<>>

\* a message is about to be parsed
InitCommit ==
  /\ pc = "start" /\ msg \in Messages /\ raw = ParseFailure /\ result = NoResult
  /\ out = <<>> /\ idx = 1 /\ reparsed = NoResult
  /\ ComponentIdle

\* two identifier texts are about to be wrapped and compared
InitCompare ==
  /\ CommitIdle
  /\ cpc = "compare" /\ ta \in IdTexts /\ tb \in IdTexts /\ eqRes = FALSE
  /\ hashA = <<>> /\ hashB = <<>> /\ terminated \in BOOLEAN /\ shown = <<>>
  /\ sepVariant = "none" /\ sepText = <<>>
  /\ sepRes = NoSep /\ sepTry = NoSep /\ sepBack = <<>>

\* a separator literal is about to be parsed
InitLiteral ==
  /\ CommitIdle
  /\ cpc = "literal" /\ ta = <<>> /\ tb = <<>> /\ eqRes = FALSE
  /\ hashA = <<>> /\ hashB = <<>> /\ terminated = FALSE /\ shown = <<>>
  /\ sepVariant = "none" /\ sepText \in SepLiterals
  /\ sepRes = NoSep /\ sepTry = NoSep /\ sepBack = <<>>

\* a separator is about to be written as its literal
InitVariant ==
  /\ CommitIdle
  /\ cpc = "variant" /\ ta = <<>> /\ tb = <<>> /\ eqRes = FALSE
  /\ hashA = <<>> /\ hashB = <<>> /\ terminated = FALSE /\ shown = <<>>
  /\ sepVariant \in FooterSeparator /\ sepText = <<>>
  /\ sepRes = NoSep /\ sepTry = NoSep /\ sepBack = <<>>

Init == InitCommit \/ InitCompare \/ InitLiteral \/ InitVariant

\* Commit::new(msg)
New ==
  /\ pc = "start"
  /\ raw' = Parse(msg)
  /\ result' = CommitNew(raw')
  /\ pc' = IF result'.ok THEN "parsed" ELSE "rejected"
  /\ UNCHANGED <<msg, out, idx, reparsed>>
  /\ UNCHANGED componentVars

\* Display::fmt, the type
FmtType ==
  /\ pc = "parsed"
  /\ out' = WriteType(result.val, out)
  /\ pc' = "fmt_scope"
  /\ UNCHANGED <<msg, raw, result, idx, reparsed>>
  /\ UNCHANGED componentVars

\* Display::fmt, the scope
FmtScope ==
  /\ pc = "fmt_scope"
  /\ out' = WriteScope(result.val, out)
  /\ pc' = "fmt_description"
  /\ UNCHANGED <<msg, raw, result, idx, reparsed>>
  /\ UNCHANGED componentVars

\* Display::fmt, the description
FmtDescription ==
  /\ pc = "fmt_description"
  /\ out' = WriteDescription(result.val, out)
  /\ pc' = "fmt_body"
  /\ UNCHANGED <<msg, raw, result, idx, reparsed>>
  /\ UNCHANGED componentVars

\* Display::fmt, the body
FmtBody ==
  /\ pc = "fmt_body"
  /\ out' = WriteBody(result.val, out)
  /\ pc' = "fmt_trailers"
  /\ idx' = 1
  /\ UNCHANGED <<msg, raw, result, reparsed>>
  /\ UNCHANGED componentVars

\* Display::fmt, one turn of the loop over self.trailers()
FmtTrailer ==
  /\ pc = "fmt_trailers"
  /\ idx <= Len(SimpleTrailers(result.val))
  /\ IF WriteTrailer(SimpleTrailers(result.val)[idx], out) = Unreachable
     THEN pc' = "panicked" /\ out' = out /\ idx' = idx
     ELSE /\ pc' = pc
          /\ out' = WriteTrailer(SimpleTrailers(result.val)[idx], out)
          /\ idx' = idx + 1
  /\ UNCHANGED <<msg, raw, result, reparsed>>
  /\ UNCHANGED componentVars

\* Display::fmt, the loop is over: Ok(())
FmtDone ==
  /\ pc = "fmt_trailers"
  /\ idx > Len(SimpleTrailers(result.val))
  /\ pc' = "formatted"
  /\ UNCHANGED <<msg, raw, result, out, idx, reparsed>>
  /\ UNCHANGED componentVars

\* Commit::new on the formatted text
Reparse ==
  /\ pc = "formatted"
  /\ reparsed' = CommitNew(Parse(out))
  /\ pc' = "reparsed"
  /\ UNCHANGED <<msg, raw, result, out, idx>>
  /\ UNCHANGED componentVars

\* Type::from on both texts, then ==, Hash, Deref and Display
Compare ==
  /\ cpc = "compare"
  /\ eqRes' = UnicaseComponentEq(UnicaseComponentFrom(ta), UnicaseComponentFrom(tb))
  /\ hashA' = UnicaseComponentHash(UnicaseComponentFrom(ta), terminated)
  /\ hashB' = UnicaseComponentHash(UnicaseComponentFrom(tb), terminated)
  /\ shown' = <<UnicaseComponentDeref(UnicaseComponentFrom(ta)),
                UnicaseComponentDisplay(UnicaseComponentFrom(ta))>>
  /\ cpc' = "compared"
  /\ UNCHANGED <<ta, tb, terminated, sepVariant, sepText, sepRes, sepTry, sepBack>>
  /\ UNCHANGED commitVars

\* FooterSeparator::as_str on a variant; on the hidden variant it panics
VariantAsStr ==
  /\ cpc = "variant"
  /\ IF AsStr(sepVariant) = Unreachable
     THEN cpc' = "panicked" /\ sepText' = sepText
     ELSE cpc' = "literal" /\ sepText' = AsStr(sepVariant)
  /\ UNCHANGED <<ta, tb, eqRes, hashA, hashB, terminated, shown,
                 sepVariant, sepRes, sepTry, sepBack>>
  /\ UNCHANGED commitVars

\* FooterSeparator::from_str and try_from on a literal
SepFromStr ==
  /\ cpc = "literal"
  /\ sepRes' = FromStr(sepText)
  /\ sepTry' = TryFrom(sepText)
  /\ cpc' = "from_str"
  /\ UNCHANGED <<ta, tb, eqRes, hashA, hashB, terminated, shown,
                 sepVariant, sepText, sepBack>>
  /\ UNCHANGED commitVars

\* FooterSeparator::as_str on the separator from_str returned
SepAsStr ==
  /\ cpc = "from_str"
  /\ sepRes.ok
  /\ sepBack' = AsStr(sepRes.val)
  /\ cpc' = "as_str"
  /\ UNCHANGED <<ta, tb, eqRes, hashA, hashB, terminated, shown,
                 sepVariant, sepText, sepRes, sepTry>>
  /\ UNCHANGED commitVars

Next ==
  \/ New
  \/ FmtType
  \/ FmtScope
  \/ FmtDescription
  \/ FmtBody
  \/ FmtTrailer
  \/ FmtDone
  \/ Reparse
  \/ Compare
  \/ VariantAsStr
  \/ SepFromStr
  \/ SepAsStr

Spec == Init /\ [][Next]_vars

(***************************************************************************)
(* The claims.                                                             *)
(***************************************************************************)
\* Commit::new has just returned a commit
Assembled == pc = "parsed" /\ result.ok

BreakingChangeFooters ==
  {i \in 1..Len(raw.footers) : Bytes(raw.footers[i].token) = Bytes(BREAKING_CHANGE)}

\* C1: for every accepted message the breaking flag is true exactly when the
\* header carried the "!" marker or some parsed footer has a token that is
\* byte for byte BREAKING CHANGE; a token that differs only in case does not
\* set the flag.
C1_BreakingIffMarkerOrFooter ==
  Assembled =>
    (SimpleBreaking(result.val) <=> (raw.bang \/ BreakingChangeFooters # {}))

\* an accepted message without marker whose only breaking-change footer is
\* written in lower case: the flag stays false
C1_Witness ==
  /\ Assembled
  /\ ~raw.bang
  /\ \E i \in 1..Len(raw.footers) :
       /\ EqIgnoreAsciiCase(raw.footers[i].token, BREAKING_CHANGE)
       /\ raw.footers[i].token # BREAKING_CHANGE
  /\ ~SimpleBreaking(result.val)

\* C2 (as stated): a commit without body and trailers, formatted with Display
\* and parsed again, is accepted and has equal type, scope, description and
\* breaking flag.
C2_RoundTrip ==
  (/\ pc = "reparsed"
   /\ ~SimpleBody(result.val).some
   /\ SimpleTrailers(result.val) = <<>>) =>
    /\ reparsed.ok
    /\ UnicaseComponentEq(reparsed.val.ty, result.val.ty)
    /\ reparsed.val.scope.some = result.val.scope.some
    /\ (result.val.scope.some =>
          UnicaseComponentEq(reparsed.val.scope.val, result.val.scope.val))
    /\ SimpleDescription(reparsed.val) = SimpleDescription(result.val)
    /\ SimpleBreaking(reparsed.val) = SimpleBreaking(result.val)

RECURSIVE C3_TrailerText(_)
C3_TrailerText(ts) ==
  IF ts = <<>> THEN <<>>
  ELSE <<"\n", "\n">> \o ts[1].token \o ts[1].separator \o ts[1].value
       \o C3_TrailerText(Tail(ts))

\* the text the reconstruction contract asks for; the breaking flag is not read
C3_Expected(c) ==
  SimpleType(c)
  \o (IF SimpleScope(c).some THEN <<"(">> \o SimpleScope(c).val \o <<")">> ELSE <<>>)
  \o <<":", " ">> \o SimpleDescription(c)
  \o (IF SimpleBody(c).some THEN <<"\n", "\n">> \o SimpleBody(c).val ELSE <<>>)
  \o C3_TrailerText(SimpleTrailers(c))

\* C3: Display writes the type, "(scope)" only when there is a scope, ": " and
\* the description, a blank line and the body only when there is a body, then
\* for each trailer in stored order a blank line, the token, the separator's
\* literal and the value, and nothing else; no "!" is written for a breaking
\* commit.
C3_DisplayLayout ==
  pc \in {"formatted", "reparsed"} => out = C3_Expected(result.val)

\* a breaking commit with scope, body and two trailers has been formatted
C3_Witness ==
  /\ pc = "formatted"
  /\ SimpleBreaking(result.val)
  /\ raw.bang
  /\ SimpleScope(result.val).some
  /\ SimpleBody(result.val).some
  /\ Len(SimpleTrailers(result.val)) = 2

\* a description the header grammar accepts
C4_IsDescription(d) ==
  /\ d # <<>>
  /\ \A i \in 1..Len(d) : d[i] \notin {"\n", "\r"}
  /\ ~IsWhitespace(d[1])

\* the places where a message of the form  type: description  splits
C4_Splits(m) ==
  {k \in 1..(Len(m) - 3) :
     /\ \A i \in 1..k : IsTypeChar(m[i])
     /\ m[k + 1] = ":" /\ m[k + 2] = " "
     /\ C4_IsDescription(Drop(m, k + 2))}

\* C4: every input  type: description  (no scope, no marker, nothing after the
\* header line) is accepted with no scope, no body, breaking false, no
\* trailers, and the type and description as given.
C4_TypeDescription ==
  pc \in {"parsed", "rejected"} =>
    \A k \in C4_Splits(msg) :
      /\ result.ok
      /\ SimpleType(result.val) = SubSeq(msg, 1, k)
      /\ SimpleDescription(result.val) = Drop(msg, k + 2)
      /\ SimpleScope(result.val) = None
      /\ SimpleBody(result.val) = None
      /\ SimpleBreaking(result.val) = FALSE
      /\ SimpleTrailers(result.val) = <<>>

\* a message  type: description  has been through Commit::new
C4_Witness == pc = "parsed" /\ C4_Splits(msg) # {}

\* C5: trailers() lists exactly the recognizer's footers in source order:
\* the same length, and the i-th trailer has the token, separator and value of
\* the i-th footer; repeated tokens stay apart.
C5_TrailersAreFooters ==
  Assembled =>
    /\ Len(SimpleTrailers(result.val)) = Len(raw.footers)
    /\ \A i \in 1..Len(raw.footers) :
         /\ SimpleTrailers(result.val)[i].token = raw.footers[i].token
         /\ SimpleTrailers(result.val)[i].separator =
              (IF raw.footers[i].sep = ColonSpace THEN <<":", " ">> ELSE <<" ", "#">>)
         /\ SimpleTrailers(result.val)[i].value = raw.footers[i].value

\* a commit whose footers repeat a token with different values between
C5_Witness ==
  /\ Assembled
  /\ Len(raw.footers) = 3
  /\ raw.footers[1].token = raw.footers[3].token
  /\ raw.footers[1].token # raw.footers[2].token
  /\ Len(SimpleTrailers(result.val)) = 3

\* the lines after the header's blank line that match  token separator
C6_Starts(lines) == {i \in 3..Len(lines) : IsFooterLine(lines[i])}

\* the footer line a later line belongs to: the nearest one before it
C6_Owner(starts, i) == CHOOSE s \in starts : s <= i /\ \A j \in starts : j <= i => j <= s

\* the last line before the footer line that follows s, or the last line
C6_End(lines, starts, s) ==
  IF \E j \in starts : j > s
  THEN (CHOOSE j \in starts : j > s /\ \A k \in starts : k > s => j <= k) - 1
  ELSE Len(lines)

C6_Rank(starts, s) == Cardinality({j \in starts : j <= s})

\* C6: once the footer block has begun, a later line that does not match
\* token separator  is appended to the value of the footer before it: it
\* starts no footer, is no part of the body and does not make parsing fail.
C6_PermissiveTail ==
  pc \in {"parsed", "rejected"} =>
    LET lines == SplitLines(msg)
        starts == C6_Starts(lines)
        first == CHOOSE i \in starts : \A j \in starts : i <= j
    IN  (/\ ParseHeader(lines[1]).ok
         /\ Len(lines) >= 3
         /\ IsBlank(lines[2])
         /\ starts # {}) =>
          /\ raw.ok
          /\ Len(raw.footers) = Cardinality(starts)
          /\ \A i \in first..Len(lines) :
               LET s == C6_Owner(starts, i)
                   f == raw.footers[C6_Rank(starts, s)]
                   tl == TokenLen(lines[s])
               IN  /\ f.token = SubSeq(lines[s], 1, tl)
                   /\ f.value =
                        TrimEnd(JoinLines(<<Drop(lines[s], tl + 2)>>
                                          \o SubSeq(lines, s + 1, C6_End(lines, starts, s))))
          /\ (raw.body.some =>
                \E a \in 3..(first - 1) :
                  raw.body.val = TrimEnd(JoinLines(SubSeq(lines, a, first - 1))))
          /\ ((\A a \in 3..(first - 1) : IsBlank(lines[a])) => ~raw.body.some)

\* one footer whose value took two further lines that are no footers
C6_Witness ==
  /\ pc = "parsed"
  /\ Len(raw.footers) = 1
  /\ raw.footers[1].value = <<"1", "\n", "t", "x", "t", "\n", "t", "x", "t">>
  /\ ~raw.body.some

\* the text with every upper-case letter replaced by its lower-case letter
C7_Fold(s) ==
  [i \in 1..Len(s) |->
     IF \E k \in 34..59 : Printable[k] = s[i]
     THEN Printable[(CHOOSE k \in 34..59 : Printable[k] = s[i]) + 32]
     ELSE s[i]]

\* C7: two Type (Scope, FooterToken) values are equal exactly when their texts
\* are equal after case folding, equal values have equal hashes, and Deref and
\* Display give the original text.
C7_CaseInsensitiveIdentity ==
  cpc = "compared" =>
    /\ eqRes <=> (C7_Fold(ta) = C7_Fold(tb))
    /\ eqRes => hashA = hashB
    /\ shown = <<ta, ta>>

\* two texts that differ only in case have been compared, and found equal
C7_Witness ==
  cpc = "compared" /\ ta # tb /\ eqRes /\ Len(ta) = 2 /\ hashA = hashB /\ terminated

C8_Literals == {<<":", " ">>, <<" ", "#">>}

\* C8: FooterSeparator and its literal round-trip: from_str(as_str(v)) = Ok(v)
\* for both variants, as_str(from_str(s)) = s for both literals, ColonSpace is
\* ": " and SpacePound is " #".
C8_SeparatorRoundTrip ==
  /\ (cpc # "variant" /\ sepVariant \in {ColonSpace, SpacePound}) => cpc # "panicked"
  /\ (cpc \in {"from_str", "as_str"} /\ sepVariant \in {ColonSpace, SpacePound}) =>
       (sepRes.ok /\ sepRes.val = sepVariant)
  /\ (cpc \in {"from_str", "as_str"} /\ sepText \in C8_Literals) => sepRes.ok
  /\ (cpc = "as_str" /\ sepText \in C8_Literals) => sepBack = sepText
  /\ (cpc \in {"literal", "from_str", "as_str"} /\ sepVariant = ColonSpace) =>
       sepText = <<":", " ">>
  /\ (cpc \in {"literal", "from_str", "as_str"} /\ sepVariant = SpacePound) =>
       sepText = <<" ", "#">>

\* SpacePound went to its literal and back
C8_Witness ==
  /\ cpc = "as_str"
  /\ sepVariant = SpacePound
  /\ sepRes.val = SpacePound
  /\ sepBack = <<" ", "#">>

\* C9: from_str and try_from on any text other than ": " and " #" return an
\* InvalidFormat error and no separator.
C9_InvalidSeparator ==
  (cpc \in {"from_str", "as_str"} /\ sepText \notin C8_Literals) =>
    /\ ~sepRes.ok /\ sepRes.err = InvalidFormat /\ sepRes.val \notin FooterSeparator
    /\ ~sepTry.ok /\ sepTry.err = InvalidFormat /\ sepTry.val \notin FooterSeparator

\* a bare colon was refused
C9_Witness ==
  cpc = "from_str" /\ sepText = <<":">> /\ ~sepRes.ok /\ sepRes.err = InvalidFormat

\* C10 (as stated): breaking is the header marker, or exactly one footer whose
\* token is BREAKING CHANGE.
C10_ExactlyOneFooter ==
  Assembled =>
    (SimpleBreaking(result.val) <=>
       (raw.bang \/ Cardinality(BreakingChangeFooters) = 1))

\* C10 (amended): without a header marker, breaking is true exactly when at
\* least one footer has the token BREAKING CHANGE; two such footers set it too.
C10_AtLeastOneFooter ==
  (Assembled /\ ~raw.bang) =>
    (SimpleBreaking(result.val) <=> Cardinality(BreakingChangeFooters) >= 1)

\* no marker, two BREAKING CHANGE footers, and the flag is set
C10_Witness ==
  /\ Assembled
  /\ ~raw.bang
  /\ Cardinality(BreakingChangeFooters) = 2
  /\ SimpleBreaking(result.val)

====
